---- MODULE Spec2Model ----
\* Bit-banged 8-N-1 debug transmitter (SendDebugf / SendDebug / CpuDelay) of
\* fw/otavio.h and of its busy-loop sibling, as a state machine: one action per
\* statement of each function, a main context and an interrupt handler that may
\* both call them.
EXTENDS Integers, Naturals, Sequences, FiniteSets, TLC

\* ------------------------------------------------------------------ bounds
\* Longest string the main context sends.
MaxLen == 2
\* Cap of the elapsed-ticks history counter of one wait (it saturates here).
ElapsedCap == 4000
\* Cells of the stack modelled past the end of SendDebugf's buffer.
Redzone == 2

\* ------------------------------------------------------- program constants
\* constexpr uint32_t CPU_CYCLES of the two builds.
CPU_CYCLES_FW == 725
CPU_CYCLES_LOOP == 145
\* uint32_t is held as two 16-bit halves <<hi, lo>>; Half is 2^16.
Half == 65536
\* char buffer[128] of SendDebugf.
BUFFER_SIZE == 128

\* ------------------------------------------------------------ input sets
\* Bytes a string is made of: 'A', '~' (printable) and 0xA5 (top bit set).
Alphabet == {65, 126, 165}
Printable == 32..126

RECURSIVE StringsUpTo(_, _)
StringsUpTo(A, n) ==
  IF n = 0 THEN {<<>>}
  ELSE LET shorter == StringsUpTo(A, n - 1)
       IN  shorter \cup {Append(s, b) : s \in {t \in shorter : Len(t) = n - 1}, b \in A}

Strings == StringsUpTo(Alphabet, MaxLen)
\* What the interrupt handler sends: nothing, or "Z".
IsrStrings == {<<>>, <<90>>}

\* ------------------------------------------------------ uint32_t arithmetic
Zero32 == <<0, 0>>
U32(hi, lo) == <<hi, lo>>

\* x + n modulo 2^32, for a uint32_t x and a natural n below 2^31.
Add32(x, n) ==
  LET lo == x[2] + (n % Half)
      hi == x[1] + (n \div Half) + (lo \div Half)
  IN  <<hi % Half, lo % Half>>

\* The unsigned comparison x < y.
Lt32(x, y) == x[1] < y[1] \/ (x[1] = y[1] /\ x[2] < y[2])

\* Counter values at which SendDebug may be called: far from the wrap, inside the
\* last bit-time before it (2^32 - 300), and a few bit-times before it (2^32 - 3536).
StartCycles == { U32(0, 0), U32(65535, 65236), U32(65535, 62000) }
\* Counter values at which CpuDelay may be called directly: also 2^32 - 726 and
\* 2^32 - 725 (target = 2^32 - 1 and target = 0 for a bit-time) and 2^32 - 1.
DelayStartCycles == StartCycles \cup { U32(65535, 64810), U32(65535, 64811), U32(65535, 65535) }

\* Ticks of the counter between two successive reads of it.
BigStride == 2 ^ 30
SendTicks == {145, BigStride}
DelayTicks == {1, 145, BigStride}
\* Arguments of a direct CpuDelay call.
CyclesSet == {1, 2, 725, 1450}

Ctx == {"main", "isr"}
Variants == {"fw", "loop"}

VARIABLES
  variant,   \* which build: "fw" (fw/otavio.h) or "loop" (the busy-loop sibling)
  char_signed, \* whether the target's plain char is signed (ARM EABI: it is not)
  tick,      \* cycles between two successive reads of DWT->CYCCNT
  CYCCNT,    \* DWT->CYCCNT, the free-running 32-bit cycle counter
  PRIMASK,   \* 1 = maskable interrupts disabled
  pin,       \* level of the debug pin
  sess       \* per context: the frame of its SendDebug / CpuDelay call

vars == <<variant, char_signed, tick, CYCCNT, PRIMASK, pin, sess>>

Fresh ==
  [ pc |-> "idle", text |-> <<>>, str |-> <<>>, i |-> 0, primask |-> 0,
    dpc |-> "none", cycles |-> 0, start_cycle |-> Zero32, target_cycle |-> Zero32,
    elapsed |-> 0, waits |-> 0, requested |-> 0, slots |-> <<>>, levels |-> <<>>,
    irq_entry |-> 0, pin_entry |-> 0,
    buffer |-> <<>>, rendered |-> <<>>, nested |-> <<>> ]

\* --------------------------------------------------------------- helpers
Min(a, b) == IF a < b THEN a ELSE b

\* constexpr uint32_t CPU_CYCLES, per build.
CPU_CYCLES == IF variant = "fw" THEN CPU_CYCLES_FW ELSE CPU_CYCLES_LOOP

\* Integer promotion of *str: a plain char is signed or unsigned by target.
IntOfChar(b) == IF char_signed /\ b >= 128 THEN b - 256 ELSE b

\* Mutant of DataBit: the bits taken most-significant first.
DataBitMsbFirst(b, i) == (IntOfChar(b) \div (2 ^ (7 - i))) % 2

\* Mutant of DataBit: the shift replaced by a division that rounds toward zero.
DataBitTruncatingDiv(b, i) ==
  LET x == IntOfChar(b)
  IN  (IF x < 0 THEN -((-x) \div (2 ^ i)) ELSE x \div (2 ^ i)) % 2

\* (*str >> i) & 0x01 on the promoted int (>> of a negative int is arithmetic).
DataBit(b, i) == (IntOfChar(b) \div (2 ^ i)) % 2

\* CpuDelay of the busy-loop build: for (volatile i = 0; i < cycles; i++) __NOP();
\* the number of __NOP()s it runs, one per value of i that passes the test.
BusyLoop(cycles) == Cardinality({i \in 0..cycles : i < cycles})

IsrIdle == sess["isr"].pc = "idle"
\* The context that holds the CPU: the handler once entered, else main.
Runs(c) == IF c = "isr" THEN ~IsrIdle ELSE IsrIdle

WaitPcs == {"start_wait", "data_wait", "stop_wait", "call_delay"}

\* The cycles argument at the call site the frame is at.
DelayArg(s) == IF s.pc = "call_delay" THEN s.cycles ELSE CPU_CYCLES

\* Mutant of AfterDelay: CpuDelay advances the caller's bit index as it returns.
AfterDelayAdvancesBit(s) ==
  CASE s.pc = "start_wait" -> [s EXCEPT !.pc = "for_init", !.dpc = "none"]
    [] s.pc = "data_wait"  -> [s EXCEPT !.pc = "for_incr", !.i = s.i + 1, !.dpc = "none"]
    [] s.pc = "stop_wait"  -> [s EXCEPT !.pc = "incr", !.dpc = "none"]
    [] OTHER               -> [s EXCEPT !.pc = "done", !.dpc = "none"]

\* The frame after CpuDelay returned to its call site: the statement that follows
\* the call is next, and nothing else of the frame has changed.
AfterDelay(s) ==
  CASE s.pc = "start_wait" -> [s EXCEPT !.pc = "for_init", !.dpc = "none"]
    [] s.pc = "data_wait"  -> [s EXCEPT !.pc = "for_incr", !.dpc = "none"]
    [] s.pc = "stop_wait"  -> [s EXCEPT !.pc = "incr", !.dpc = "none"]
    [] OTHER               -> [s EXCEPT !.pc = "done", !.dpc = "none"]

\* The frame after db2.write(level) for slot k of the current character.
Wrote(s, k, level, next) ==
  [s EXCEPT !.pc = next, !.slots = Append(s.slots, k), !.levels = Append(s.levels, level)]

Init ==
  /\ variant \in Variants
  /\ char_signed = FALSE
  /\ tick \in (IF variant = "fw" THEN SendTicks ELSE {1})
  /\ CYCCNT = Zero32
  /\ PRIMASK = 0
  /\ pin \in {0, 1}
  /\ sess = [c \in Ctx |-> Fresh]

\* ------------------------------------------------------------- the callers
\* The frame of SendDebug(s) on entry.
Entered(s) ==
  [Fresh EXCEPT !.pc = (IF variant = "fw" THEN "get_primask" ELSE "ctor"),
                !.text = s, !.str = s, !.irq_entry = PRIMASK, !.pin_entry = pin]

\* The counter at a call: any value, the time since the last call being arbitrary.
CounterAtCall == IF variant = "fw" THEN StartCycles ELSE {CYCCNT}

\* The main context calls SendDebug(s).
Call(s) ==
  /\ IsrIdle
  /\ sess["main"].pc = "idle"
  /\ sess' = [sess EXCEPT !["main"] = Entered(s)]
  /\ CYCCNT' \in CounterAtCall
  /\ UNCHANGED <<variant, char_signed, tick, PRIMASK, pin>>

\* SendDebug has returned to the main context: its frame is gone.
Return ==
  /\ IsrIdle
  /\ sess["main"].pc = "done"
  /\ sess' = [sess EXCEPT !["main"] = Fresh]
  /\ UNCHANGED <<variant, char_signed, tick, CYCCNT, PRIMASK, pin>>

\* An interrupt is taken (PRIMASK clear) between two statements of the main
\* context, and its handler calls SendDebug(s).
Irq(s) ==
  /\ IsrIdle
  /\ sess["main"].pc # "done"
  /\ PRIMASK = 0
  /\ sess' = [sess EXCEPT !["isr"] = Entered(s)]
  /\ CYCCNT' \in CounterAtCall
  /\ UNCHANGED <<variant, char_signed, tick, PRIMASK, pin>>

\* The handler returns: main resumes where it was preempted.
IrqReturn ==
  /\ sess["isr"].pc = "done"
  /\ sess' = [sess EXCEPT !["isr"] = Fresh]
  /\ UNCHANGED <<variant, char_signed, tick, CYCCNT, PRIMASK, pin>>

\* Between calls the main context masks or unmasks interrupts itself.
CallerSetsPrimask ==
  /\ IsrIdle
  /\ sess["main"].pc = "idle"
  /\ PRIMASK' = 1 - PRIMASK
  /\ UNCHANGED <<variant, char_signed, tick, CYCCNT, pin, sess>>

\* ---------------------------------------------------------------- SendDebug
\* uint32_t primask = __get_PRIMASK();
GetPrimask(c) ==
  /\ Runs(c) /\ sess[c].pc = "get_primask"
  /\ sess' = [sess EXCEPT ![c].primask = PRIMASK, ![c].pc = "disable_irq"]
  /\ UNCHANGED <<variant, char_signed, tick, CYCCNT, PRIMASK, pin>>

\* __disable_irq();
DisableIrq(c) ==
  /\ Runs(c) /\ sess[c].pc = "disable_irq"
  /\ PRIMASK' = 1
  /\ sess' = [sess EXCEPT ![c].pc = "ctor"]
  /\ UNCHANGED <<variant, char_signed, tick, CYCCNT, pin>>

\* Mutant of Ctor: the pin constructed low.
CtorLow(c) ==
  /\ Runs(c) /\ sess[c].pc = "ctor"
  /\ pin' = 0
  /\ sess' = [sess EXCEPT ![c].pc = "while"]
  /\ UNCHANGED <<variant, char_signed, tick, CYCCNT, PRIMASK>>

\* DigitalOut db2(pin, 1);
Ctor(c) ==
  /\ Runs(c) /\ sess[c].pc = "ctor"
  /\ pin' = 1
  /\ sess' = [sess EXCEPT ![c].pc = "while"]
  /\ UNCHANGED <<variant, char_signed, tick, CYCCNT, PRIMASK>>

\* while (*str)
While(c) ==
  /\ Runs(c) /\ sess[c].pc = "while"
  /\ sess' = [sess EXCEPT ![c].pc = IF sess[c].str # <<>> THEN "start" ELSE "idle_write"]
  /\ UNCHANGED <<variant, char_signed, tick, CYCCNT, PRIMASK, pin>>

\* db2.write(0);  (start bit)
WriteStart(c) ==
  /\ Runs(c) /\ sess[c].pc = "start"
  /\ pin' = 0
  /\ sess' = [sess EXCEPT ![c] = Wrote(sess[c], 0, 0, "start_wait")]
  /\ UNCHANGED <<variant, char_signed, tick, CYCCNT, PRIMASK>>

\* Mutant of ForInit: the data loop starts at i = 1, skipping bit 0.
ForInitSkipsBit0(c) ==
  /\ Runs(c) /\ sess[c].pc = "for_init"
  /\ sess' = [sess EXCEPT ![c].i = 1, ![c].pc = "for"]
  /\ UNCHANGED <<variant, char_signed, tick, CYCCNT, PRIMASK, pin>>

\* for (int i = 0; i < 8; i++): the initialisation
ForInit(c) ==
  /\ Runs(c) /\ sess[c].pc = "for_init"
  /\ sess' = [sess EXCEPT ![c].i = 0, ![c].pc = "for"]
  /\ UNCHANGED <<variant, char_signed, tick, CYCCNT, PRIMASK, pin>>

\* for (int i = 0; i < 8; i++): the increment
ForIncr(c) ==
  /\ Runs(c) /\ sess[c].pc = "for_incr"
  /\ sess' = [sess EXCEPT ![c].i = sess[c].i + 1, ![c].pc = "for"]
  /\ UNCHANGED <<variant, char_signed, tick, CYCCNT, PRIMASK, pin>>

\* Mutant of ForTest: the loop bound off by one (i < 7).
ForTestSevenBits(c) ==
  /\ Runs(c) /\ sess[c].pc = "for"
  /\ sess' = [sess EXCEPT ![c].pc = IF sess[c].i < 7 THEN "data" ELSE "stop"]
  /\ UNCHANGED <<variant, char_signed, tick, CYCCNT, PRIMASK, pin>>

\* Mutant of ForTest: the busy-loop build has drifted and sends seven data bits.
ForTestLoopBuildDrifted(c) ==
  /\ Runs(c) /\ sess[c].pc = "for"
  /\ sess' = [sess EXCEPT ![c].pc = IF sess[c].i < (IF variant = "loop" THEN 7 ELSE 8)
                                    THEN "data" ELSE "stop"]
  /\ UNCHANGED <<variant, char_signed, tick, CYCCNT, PRIMASK, pin>>

\* for (int i = 0; i < 8; i++): the test
ForTest(c) ==
  /\ Runs(c) /\ sess[c].pc = "for"
  /\ sess' = [sess EXCEPT ![c].pc = IF sess[c].i < 8 THEN "data" ELSE "stop"]
  /\ UNCHANGED <<variant, char_signed, tick, CYCCNT, PRIMASK, pin>>

\* db2.write((*str >> i) & 0x01);
WriteData(c) ==
  /\ Runs(c) /\ sess[c].pc = "data"
  /\ LET level == DataBit(Head(sess[c].str), sess[c].i)
     IN  /\ pin' = level
         /\ sess' = [sess EXCEPT ![c] = Wrote(sess[c], 1 + sess[c].i, level, "data_wait")]
  /\ UNCHANGED <<variant, char_signed, tick, CYCCNT, PRIMASK>>

\* Mutant of WriteStop: the stop bit driven low.
WriteStopLow(c) ==
  /\ Runs(c) /\ sess[c].pc = "stop"
  /\ pin' = 0
  /\ sess' = [sess EXCEPT ![c] = Wrote(sess[c], 9, 0, "stop_wait")]
  /\ UNCHANGED <<variant, char_signed, tick, CYCCNT, PRIMASK>>

\* db2.write(1);  (stop bit)
WriteStop(c) ==
  /\ Runs(c) /\ sess[c].pc = "stop"
  /\ pin' = 1
  /\ sess' = [sess EXCEPT ![c] = Wrote(sess[c], 9, 1, "stop_wait")]
  /\ UNCHANGED <<variant, char_signed, tick, CYCCNT, PRIMASK>>

\* str++;
Incr(c) ==
  /\ Runs(c) /\ sess[c].pc = "incr"
  /\ sess' = [sess EXCEPT ![c].str = Tail(sess[c].str), ![c].pc = "while"]
  /\ UNCHANGED <<variant, char_signed, tick, CYCCNT, PRIMASK, pin>>

\* Mutant of WriteIdle: the pin left low on return.
WriteIdleLow(c) ==
  /\ Runs(c) /\ sess[c].pc = "idle_write"
  /\ pin' = 0
  /\ sess' = [sess EXCEPT ![c].pc = IF variant = "fw" THEN "restore" ELSE "done"]
  /\ UNCHANGED <<variant, char_signed, tick, CYCCNT, PRIMASK>>

\* db2.write(1);  (return to idle state)
WriteIdle(c) ==
  /\ Runs(c) /\ sess[c].pc = "idle_write"
  /\ pin' = 1
  /\ sess' = [sess EXCEPT ![c].pc = IF variant = "fw" THEN "restore" ELSE "done"]
  /\ UNCHANGED <<variant, char_signed, tick, CYCCNT, PRIMASK>>

\* Mutant of Restore: interrupts re-enabled whatever the snapshot says.
RestoreAlwaysEnables(c) ==
  /\ Runs(c) /\ sess[c].pc = "restore"
  /\ PRIMASK' = 0
  /\ sess' = [sess EXCEPT ![c].pc = "done"]
  /\ UNCHANGED <<variant, char_signed, tick, CYCCNT, pin>>

\* if (!primask) { __enable_irq(); }  and return
Restore(c) ==
  /\ Runs(c) /\ sess[c].pc = "restore"
  /\ PRIMASK' = IF sess[c].primask = 0 THEN 0 ELSE PRIMASK
  /\ sess' = [sess EXCEPT ![c].pc = "done"]
  /\ UNCHANGED <<variant, char_signed, tick, CYCCNT, pin>>

\* ----------------------------------------------------------------- CpuDelay
\* fw: start_cycle = DWT->CYCCNT; target_cycle = start_cycle + cycles;
CpuDelayEnter(c) ==
  /\ Runs(c) /\ variant = "fw"
  /\ sess[c].pc \in WaitPcs /\ sess[c].dpc = "none"
  /\ LET n == DelayArg(sess[c])
     IN  sess' = [sess EXCEPT ![c].dpc = "loop", ![c].cycles = n,
                              ![c].start_cycle = CYCCNT,
                              ![c].target_cycle = Add32(CYCCNT, n),
                              ![c].elapsed = Min(tick, ElapsedCap),
                              ![c].waits = sess[c].waits + 1,
                              ![c].requested = sess[c].requested + n]
  /\ CYCCNT' = Add32(CYCCNT, tick)
  /\ UNCHANGED <<variant, char_signed, tick, PRIMASK, pin>>

\* fw: while (DWT->CYCCNT < target_cycle) { __NOP(); }  the test holds
CpuDelaySpin(c) ==
  /\ Runs(c) /\ sess[c].dpc = "loop"
  /\ Lt32(CYCCNT, sess[c].target_cycle)
  /\ CYCCNT' = Add32(CYCCNT, tick)
  /\ sess' = [sess EXCEPT ![c].elapsed = Min(sess[c].elapsed + tick, ElapsedCap)]
  /\ UNCHANGED <<variant, char_signed, tick, PRIMASK, pin>>

\* fw: while (DWT->CYCCNT < target_cycle)  the test fails: CpuDelay returns
CpuDelayReturn(c) ==
  /\ Runs(c) /\ sess[c].dpc = "loop"
  /\ ~Lt32(CYCCNT, sess[c].target_cycle)
  /\ sess' = [sess EXCEPT ![c] = AfterDelay(sess[c])]
  /\ UNCHANGED <<variant, char_signed, tick, CYCCNT, PRIMASK, pin>>

\* loop: for (volatile uint32_t i = 0; i < cycles; i++) { __NOP(); }
CpuDelayBusy(c) ==
  /\ Runs(c) /\ variant = "loop"
  /\ sess[c].pc \in WaitPcs /\ sess[c].dpc = "none"
  /\ LET n == DelayArg(sess[c])
         s == [sess[c] EXCEPT !.cycles = n, !.elapsed = BusyLoop(n),
                              !.waits = sess[c].waits + 1,
                              !.requested = sess[c].requested + n]
     IN  sess' = [sess EXCEPT ![c] = AfterDelay(s)]
  /\ UNCHANGED <<variant, char_signed, tick, CYCCNT, PRIMASK, pin>>

\* ------------------------------------------------------------ specification
Step(c) ==
  \/ GetPrimask(c) \/ DisableIrq(c) \/ Ctor(c) \/ While(c)
  \/ WriteStart(c) \/ ForInit(c) \/ ForTest(c) \/ WriteData(c) \/ ForIncr(c)
  \/ WriteStop(c)
  \/ Incr(c) \/ WriteIdle(c) \/ Restore(c)
  \/ CpuDelayEnter(c) \/ CpuDelaySpin(c) \/ CpuDelayReturn(c) \/ CpuDelayBusy(c)

Next ==
  \/ \E s \in Strings : Call(s)
  \/ Return
  \/ \E s \in IsrStrings : Irq(s)
  \/ IrqReturn
  \/ CallerSetsPrimask
  \/ \E c \in Ctx : Step(c)

Spec == Init /\ [][Next]_vars

\* The CPU keeps executing: the handler runs to its end, and the main context
\* gets to run between interrupts.
LiveSpec == Spec /\ SF_vars(Step("main")) /\ WF_vars(Step("isr")) /\ WF_vars(IrqReturn)

\* CpuDelay(cycles) of fw/otavio.h called on its own, for any argument and any
\* counter value at entry.
InitDelay ==
  /\ variant = "fw"
  /\ char_signed = FALSE
  /\ tick \in DelayTicks
  /\ CYCCNT \in DelayStartCycles
  /\ PRIMASK \in {0, 1}
  /\ pin \in {0, 1}
  /\ \E n \in CyclesSet :
       sess = [c \in Ctx |-> IF c = "main"
                             THEN [Fresh EXCEPT !.pc = "call_delay", !.cycles = n,
                                                !.irq_entry = PRIMASK, !.pin_entry = pin]
                             ELSE Fresh]

NextDelay == CpuDelayEnter("main") \/ CpuDelaySpin("main") \/ CpuDelayReturn("main")

SpecDelay == InitDelay /\ [][NextDelay]_vars

\* One uninterrupted SendDebug call of the main context, on every one-byte string
\* (bytes 1..255) and on the longer strings, for either signedness of char.
AllBytes == 1..255
FrameStrings == Strings \cup {<<b>> : b \in AllBytes}

InitFrames ==
  /\ variant \in Variants
  /\ char_signed \in BOOLEAN
  /\ tick \in (IF variant = "fw" THEN SendTicks ELSE {1})
  /\ CYCCNT \in (IF variant = "fw" THEN {U32(0, 0), U32(65535, 65236)} ELSE {Zero32})
  /\ PRIMASK = 0
  /\ pin = 1
  /\ \E s \in FrameStrings :
       sess = [c \in Ctx |-> IF c = "main" THEN Entered(s) ELSE Fresh]

NextFrames == Step("main")

SpecFrames == InitFrames /\ [][NextFrames]_vars

\* --------------------------------------------------------------- SendDebugf
\* The text a format and its arguments render to, by length: printable bytes that
\* differ from one position to the next.
TextOf(L) == [k \in 1..L |-> 33 + (k % 90)]
\* Lengths around the capacity: empty, short, the longest that fits with its
\* terminator, and one and two bytes more.
FormatLens == {0, 2, BUFFER_SIZE - 1, BUFFER_SIZE, BUFFER_SIZE + 1}
FormatTexts == {TextOf(L) : L \in FormatLens}

\* An uninitialised buffer[128]: whatever the stack held (every cell g here),
\* followed by the cells of the stack past its end (marked -1).
Garbage == {0, 85}
Uninitialized(g) == [k \in 1..(BUFFER_SIZE + Redzone) |-> IF k <= BUFFER_SIZE THEN g ELSE -1]

\* Mutant of SnprintfInto: sprintf, which ignores the size of the buffer.
SprintfInto(mem, size, text) ==
  [k \in 1..Len(mem) |-> IF k <= Len(text) THEN text[k]
                          ELSE IF k = Len(text) + 1 THEN 0 ELSE mem[k]]

\* snprintf(buffer, size, format, args...): at most size - 1 bytes of the rendered
\* text, then a NUL; the other cells are not written.
SnprintfInto(mem, size, text) ==
  LET n == Min(Len(text), size - 1)
  IN  [k \in 1..Len(mem) |-> IF k <= n THEN text[k]
                              ELSE IF k = n + 1 THEN 0 ELSE mem[k]]

\* The C string at the start of mem: the bytes before the first NUL.
CString(mem) ==
  LET z == {k \in 1..Len(mem) : mem[k] = 0}
  IN  IF z = {} THEN mem
      ELSE SubSeq(mem, 1, (CHOOSE k \in z : \A j \in z : k <= j) - 1)

\* Mutant of ScratchOwner: one static buffer shared by every call.
ScratchShared(c) == "main"

\* buffer is an automatic variable: it lives in the frame of the call.
ScratchOwner(c) == c

FormatPcs == {"fmt_buffer", "fmt_snprintf", "fmt_send"}

\* char buffer[128];
BufferAlloc(c) ==
  /\ Runs(c) /\ sess[c].pc = "fmt_buffer"
  /\ \E g \in Garbage :
       sess' = [sess EXCEPT ![ScratchOwner(c)].buffer = Uninitialized(g),
                            ![c].pc = "fmt_snprintf"]
  /\ UNCHANGED <<variant, char_signed, tick, CYCCNT, PRIMASK, pin>>

\* snprintf(buffer, sizeof(buffer), format, args...);  its result is not used
Snprintf(c) ==
  /\ Runs(c) /\ sess[c].pc = "fmt_snprintf"
  /\ sess' = [sess EXCEPT ![ScratchOwner(c)].buffer =
                             SnprintfInto(sess[ScratchOwner(c)].buffer, BUFFER_SIZE,
                                          sess[c].rendered),
                           ![c].pc = "fmt_send"]
  /\ UNCHANGED <<variant, char_signed, tick, CYCCNT, PRIMASK, pin>>

\* SendDebug(buffer);
SendBuffer(c) ==
  /\ Runs(c) /\ sess[c].pc = "fmt_send"
  /\ sess' = [sess EXCEPT ![c] = [Entered(CString(sess[ScratchOwner(c)].buffer))
                                    EXCEPT !.buffer = sess[c].buffer,
                                           !.rendered = sess[c].rendered,
                                           !.nested = sess[c].nested]]
  /\ UNCHANGED <<variant, char_signed, tick, CYCCNT, PRIMASK, pin>>

\* The statements of a SendDebugf call during which it has not masked interrupts
\* yet: its own, and those of SendDebug up to __disable_irq().
RenderingPcs == {"fmt_snprintf", "fmt_send", "get_primask", "disable_irq"}

\* An interrupt is taken while the main context is in SendDebugf and has not
\* masked interrupts yet; its handler calls SendDebugf with arguments that render
\* to t.
FormatIrq(t) ==
  /\ IsrIdle
  /\ sess["main"].pc \in RenderingPcs /\ sess["main"].nested = <<>>
  /\ PRIMASK = 0
  /\ sess' = [sess EXCEPT !["isr"] = [Fresh EXCEPT !.pc = "fmt_buffer", !.rendered = t],
                           !["main"].nested = <<t>>]
  /\ UNCHANGED <<variant, char_signed, tick, CYCCNT, PRIMASK, pin>>

FormatStep(c) == BufferAlloc(c) \/ Snprintf(c) \/ SendBuffer(c)

\* The main context calls SendDebugf with a format and arguments that render to
\* any of the texts.
InitFormat ==
  /\ variant \in Variants
  /\ char_signed = FALSE
  /\ tick \in (IF variant = "fw" THEN SendTicks \ {BigStride} ELSE {1})
  /\ CYCCNT = Zero32
  /\ PRIMASK = 0
  /\ pin = 1
  /\ \E t \in FormatTexts :
       sess = [c \in Ctx |-> IF c = "main"
                             THEN [Fresh EXCEPT !.pc = "fmt_buffer", !.rendered = t]
                             ELSE Fresh]

NextFormat ==
  \/ \E t \in IsrStrings : FormatIrq(t)
  \/ IrqReturn
  \/ \E c \in Ctx : FormatStep(c)
  \/ \E c \in Ctx : Step(c)

SpecFormat == InitFormat /\ [][NextFormat]_vars

\* ------------------------------------------------------------------ claims
Main == sess["main"]
Isr == sess["isr"]

\* The value the eight data slots of frame f spell, least-significant first.
FrameValue(f) ==
  f[2] + 2 * f[3] + 4 * f[4] + 8 * f[5] + 16 * f[6] + 32 * f[7] + 64 * f[8] + 128 * f[9]

\* The k-th 10-slot frame of a level trace.
FrameAt(levels, k) == SubSeq(levels, 10 * (k - 1) + 1, 10 * k)

\* C1: the ten levels a call drives for each byte b of its string are low (start),
\* then bit 0..7 of b least-significant first, then high (stop); 0x41 gives
\* 0,1,0,0,0,0,0,1,0,1.
C1_FrameLevels ==
  \A c \in Ctx : \A k \in 1..Len(sess[c].text) :
    Len(sess[c].levels) >= 10 * k =>
      LET f == FrameAt(sess[c].levels, k)
          b == sess[c].text[k]
      IN  /\ f[1] = 0
          /\ \A j \in 2..9 : f[j] \in {0, 1}
          /\ FrameValue(f) = b
          /\ f[10] = 1
          /\ (b = 65 => f = <<0, 1, 0, 0, 0, 0, 0, 1, 0, 1>>)

C1_Witness ==
  /\ Main.pc = "done" /\ Main.text = <<126, 65>>
  /\ FrameAt(Main.levels, 1) = <<0, 0, 1, 1, 1, 1, 1, 1, 0, 1>>
  /\ FrameAt(Main.levels, 2) = <<0, 1, 0, 0, 0, 0, 0, 1, 0, 1>>

\* An 8-N-1 receiver fed one level per bit-time slot: it waits for a low start
\* slot, samples the next eight slots least-significant first and expects a high
\* stop slot (a low one is a framing error, reported as -1).
RECURSIVE Receive(_)
Receive(line) ==
  IF line = <<>> THEN <<>>
  ELSE IF Head(line) = 1 THEN Receive(Tail(line))
  ELSE IF Len(line) < 10 THEN <<-1>>
  ELSE LET f == SubSeq(line, 1, 10)
           rest == SubSeq(line, 11, Len(line))
       IN  IF f[10] = 1 THEN <<FrameValue(f)>> \o Receive(rest)
           ELSE <<-1>> \o Receive(rest)

IsPrintable(s) == \A k \in 1..Len(s) : s[k] \in Printable

\* C2: round trip: the receiver reconstructs a printable string from the slots the
\* call produced (between the idle level before and after them), byte for byte.
C2_RoundTrip ==
  \A c \in Ctx :
    (sess[c].pc = "done" /\ IsPrintable(sess[c].text)) =>
      Receive(<<1>> \o sess[c].levels \o <<1>>) = sess[c].text

C2_Witness ==
  /\ Main.pc = "done" /\ Main.text = <<65, 126>>
  /\ Receive(<<1>> \o Main.levels \o <<1>>) = <<65, 126>>

\* C3: on return the interrupt-enabled state is the one on entry.
C3_InterruptStatePreserved ==
  \A c \in Ctx : sess[c].pc = "done" => PRIMASK = sess[c].irq_entry

C3_Witness ==
  /\ variant = "fw" /\ Main.pc = "done" /\ Main.text # <<>>
  /\ Main.irq_entry = 1 /\ PRIMASK = 1

\* The statements of SendDebug from after the first pin write to the last one.
FramePcs ==
  {"while", "start", "start_wait", "for_init", "for", "data", "data_wait", "for_incr",
   "stop", "stop_wait", "incr", "idle_write"}

\* A call is at or past the write of its first start bit and before its return.
InFrame(s) == s.pc \in FramePcs /\ (s.slots # <<>> \/ s.pc = "start")

\* C4: while a call is between its first and its last pin write (every write of a
\* start, data or stop bit and every bit-time wait), interrupts are disabled.
C4_InterruptsMaskedDuringSend ==
  \A c \in Ctx : (Runs(c) /\ InFrame(sess[c])) => PRIMASK = 1

\* C5: CpuDelay does not return before `cycles` ticks have elapsed, and with the
\* counter read every tick it returns after exactly `cycles` ticks.
C5_DelayAtLeastCycles ==
  Main.pc = "done" =>
    /\ Main.elapsed >= Main.cycles
    /\ (tick = 1 => Main.elapsed = Main.cycles)

\* C6: every call of SendDebug that has been entered returns.
C6_SendReturns ==
  \A c \in Ctx : (sess[c].pc # "idle") ~> (sess[c].pc = "done")

\* C7: a call on a string of N bytes has made exactly 10 * N waits on return, each
\* requesting the build's CPU_CYCLES: 10 * N * CPU_CYCLES requested cycles.
C7_TenWaitsPerByte ==
  \A c \in Ctx :
    /\ sess[c].waits > 0 => sess[c].cycles = CPU_CYCLES
    /\ sess[c].pc = "done" =>
         /\ sess[c].waits = 10 * Len(sess[c].text)
         /\ sess[c].requested = 10 * Len(sess[c].text) * CPU_CYCLES

C7_Witness ==
  /\ Main.pc = "done" /\ Len(Main.text) = 2 /\ Main.waits = 20
  /\ Main.requested = 20 * CPU_CYCLES

\* The state of the claim's machine a frame is in: -1 is IDLE, 0 is START_BIT,
\* 1 + i is DATA_BIT(i), 9 is STOP_BIT. It is the slot last written, and IDLE
\* before the first start bit and from the final write on.
Phase(s) ==
  IF s.slots = <<>> \/ s.pc \in {"idle", "restore", "done"} THEN -1
  ELSE s.slots[Len(s.slots)]

\* C8: the only transitions are IDLE -> START_BIT -> DATA_BIT(0) -> ... ->
\* DATA_BIT(7) -> STOP_BIT -> (START_BIT | IDLE), and IDLE is re-entered only
\* after the stop bit of the last character.
C8_Transition(c) ==
  LET p == Phase(sess[c])
      q == Phase(sess[c])'
  IN  p # q =>
        \/ p = -1 /\ q = 0
        \/ p \in 0..8 /\ q = p + 1
        \/ p = 9 /\ q = 0
        \/ /\ p = 9 /\ q = -1
           /\ Len(sess[c].slots) = 10 * Len(sess[c].text)
           /\ sess[c].str = <<>>

\* C8: every step of every call is a transition of that machine.
C8_FrameStateMachine == [][\A c \in Ctx : C8_Transition(c)]_vars

C8_Witness ==
  /\ Main.pc = "done" /\ Len(Main.text) = 2
  /\ Main.slots = <<0, 1, 2, 3, 4, 5, 6, 7, 8, 9, 0, 1, 2, 3, 4, 5, 6, 7, 8, 9>>

\* C9: no call writes the pin while another call has started a frame and has not
\* returned.
C9_OneSessionAtATime ==
  ~ /\ Main.slots # <<>> /\ Main.pc \notin {"idle", "done"}
    /\ Isr.pc \in FramePcs \cup {"restore", "done"}

\* C10 as stated: SendDebug("") emits no frame, makes no wait, and leaves the pin
\* level and the interrupt state as they were on entry.
C10_EmptyStringUnchanged ==
  \A c \in Ctx :
    (sess[c].pc = "done" /\ sess[c].text = <<>>) =>
      /\ sess[c].slots = <<>> /\ sess[c].waits = 0
      /\ pin = sess[c].pin_entry
      /\ PRIMASK = sess[c].irq_entry

\* C10 amended: SendDebug("") emits no frame, makes no wait, leaves the interrupt
\* state as it was, and leaves the pin high: unchanged when it was high on entry,
\* raised to idle-high when it was low.
C10_EmptyStringIdleHigh ==
  \A c \in Ctx :
    (sess[c].pc = "done" /\ sess[c].text = <<>>) =>
      /\ sess[c].slots = <<>> /\ sess[c].waits = 0
      /\ pin = 1
      /\ (sess[c].pin_entry = 1 => pin = sess[c].pin_entry)
      /\ PRIMASK = sess[c].irq_entry

C10_Witness ==
  /\ Main.pc = "done" /\ Main.text = <<>> /\ Main.waits = 0
  /\ Main.pin_entry = 0 /\ pin = 1

\* No SendDebug call is in progress in either context.
NoSession == Main.pc \in {"idle", "done"} /\ Isr.pc \in {"idle", "done"}

\* C11 as stated: whenever no call is in progress, before the first call
\* included, the pin is idle-high.
C11_IdleHighOutsideSessions == NoSession => pin = 1

\* C11 amended: from the first call on, the pin is idle-high whenever no call is
\* in progress: every call leaves it high when it returns, and it keeps its level
\* while no call is in progress (before the first call nothing has driven it).
C11_IdleHighAfterCalls ==
  [][ /\ \A c \in Ctx : (sess[c].pc # "done" /\ sess[c].pc' = "done") => pin' = 1
      /\ (~NoSession /\ NoSession') => pin' = 1
      /\ (NoSession /\ NoSession') => pin' = pin ]_vars

C11_Witness ==
  /\ NoSession /\ Main.pc = "done" /\ Main.text # <<>>
  /\ Main.pin_entry = 0 /\ pin = 1

\* The call is about to drive its first start bit low.
BeforeFirstStart(s) == s.pc = "start" /\ s.slots = <<>>

\* The bit-time of the stop bit of the last character is over and the call has
\* not returned yet.
AfterFinalStop(s) ==
  /\ s.text # <<>> /\ Len(s.slots) = 10 * Len(s.text)
  /\ s.pc \in {"incr", "while", "idle_write", "restore"}

\* C12: in a call on a non-empty string the pin is high when the first start bit
\* is about to be driven low, high once the last stop bit's bit-time is over, and
\* high when the call returns.
C12_HighAroundFrames ==
  \A c \in Ctx :
    (Runs(c) /\ sess[c].text # <<>>) =>
      /\ BeforeFirstStart(sess[c]) => pin = 1
      /\ AfterFinalStop(sess[c]) => pin = 1
      /\ sess[c].pc = "done" => pin = 1

C12_Witness ==
  /\ Main.pc = "incr" /\ Len(Main.text) = 2 /\ AfterFinalStop(Main)
  /\ Main.levels[1] = 0 /\ Main.pin_entry = 0 /\ pin = 1

\* Context c executes a statement of CpuDelay: it holds the CPU at a call of
\* CpuDelay and its frame changes.
InCpuDelay(c) == Runs(c) /\ sess[c].pc \in WaitPcs /\ sess[c]' # sess[c]

\* C14: no step of CpuDelay, its return included, changes the pin level, the
\* interrupt state, or the caller's character and bit indices and what the caller
\* has written so far.
C14_DelayFrame ==
  [][ \A c \in Ctx : InCpuDelay(c) =>
        /\ pin' = pin
        /\ PRIMASK' = PRIMASK
        /\ sess[c].str' = sess[c].str
        /\ sess[c].i' = sess[c].i
        /\ sess[c].levels' = sess[c].levels
        /\ sess[c].text' = sess[c].text ]_vars

C14_Witness ==
  /\ Main.pc = "for_incr" /\ Main.i = 3 /\ Main.waits = 15 /\ Len(Main.str) = 1
  /\ pin = Main.levels[Len(Main.levels)] /\ pin = 0

\* Bit i of the unsigned 8-bit value b.
BitOf(b, i) == (b \div (2 ^ i)) % 2

\* C16: for every byte 1..255 and either signedness of char, the level for data
\* bit i = 0..7 is bit i of the unsigned value, in the expression on the character
\* being sent and in every data slot a call has written: no sign-extension bit
\* reaches a data slot.
C16_NoSignExtensionLeak ==
  /\ \A c \in Ctx : sess[c].str # <<>> =>
       \A j \in 0..7 : DataBit(Head(sess[c].str), j) = BitOf(Head(sess[c].str), j)
  /\ \A c \in Ctx : \A n \in 1..Len(sess[c].levels) :
       sess[c].slots[n] \in 1..8 =>
         sess[c].levels[n] = BitOf(sess[c].text[1 + ((n - 1) \div 10)], sess[c].slots[n] - 1)

C16_Witness ==
  /\ char_signed /\ IntOfChar(165) = -91
  /\ Main.pc = "done" /\ Main.text = <<165>>
  /\ Main.levels = <<0, 1, 0, 1, 0, 0, 1, 0, 1, 1>>

\* The number of bytes of a rendered text that fit the buffer with a terminator.
Fits(text) == Min(Len(text), BUFFER_SIZE - 1)

\* The call has emitted exactly the bytes of s, one complete frame each.
EmittedExactly(f, s) ==
  /\ Len(f.levels) = 10 * Len(s)
  /\ \A k \in 1..Len(s) :
       LET fr == FrameAt(f.levels, k)
       IN  fr[1] = 0 /\ FrameValue(fr) = s[k] /\ fr[10] = 1

\* C13: SendDebugf hands SendDebug the first min(L, 127) bytes of the rendered
\* text followed by a NUL, writes no cell outside the 128 of its buffer, has no
\* failure exit, and so the call emits exactly min(L, 127) frames.
C13_FormatTruncates ==
  \A c \in Ctx :
    LET f == sess[c]
        n == Fits(f.rendered)
    IN  f.buffer # <<>> =>
          /\ \A k \in (BUFFER_SIZE + 1)..Len(f.buffer) : f.buffer[k] = -1
          /\ f.pc # "fmt_snprintf" =>
                /\ SubSeq(f.buffer, 1, n) = SubSeq(f.rendered, 1, n)
                /\ f.buffer[n + 1] = 0
          /\ f.pc \notin FormatPcs => f.text = SubSeq(f.rendered, 1, n)
          /\ f.pc = "done" =>
                /\ f.waits = 10 * n
                /\ EmittedExactly(f, SubSeq(f.rendered, 1, n))

C13_Witness ==
  /\ Main.pc = "done" /\ Len(Main.rendered) = BUFFER_SIZE + 1
  /\ Len(Main.text) = BUFFER_SIZE - 1 /\ Main.buffer[BUFFER_SIZE] = 0
  /\ Len(Main.levels) = 10 * (BUFFER_SIZE - 1)

\* C17: a handler's SendDebugf that preempts the main context's SendDebugf before
\* it has masked interrupts emits its own text as complete frames and leaves the
\* main call's buffer alone: the main call then emits exactly the text it rendered.
C17_NestedFormatIsolated ==
  /\ (Isr.pc = "done" /\ Main.nested # <<>>) =>
       /\ Isr.rendered = Main.nested[1]
       /\ EmittedExactly(Isr, Isr.rendered)
  /\ (Main.nested # <<>> /\ Main.pc \notin {"fmt_buffer", "fmt_snprintf"}) =>
       CString(Main.buffer) = SubSeq(Main.rendered, 1, Fits(Main.rendered))
  /\ (Main.nested # <<>> /\ Main.pc = "done") =>
       EmittedExactly(Main, SubSeq(Main.rendered, 1, Fits(Main.rendered)))

C17_Witness ==
  /\ Main.pc = "done" /\ Main.nested = << <<90>> >> /\ Isr.pc = "idle"
  /\ Len(Main.rendered) = 2 /\ Main.text = Main.rendered
  /\ EmittedExactly(Main, Main.rendered)

\* The level of the n-th bit slot of a transmission of text, whatever the build:
\* slot 0 of each byte low, slots 1..8 its bits least-significant first, slot 9
\* high.
CanonLevel(text, n) ==
  LET b == text[1 + ((n - 1) \div 10)]
      s == (n - 1) % 10
  IN  IF s = 0 THEN 0 ELSE IF s = 9 THEN 1 ELSE BitOf(b, s - 1)

====
